---- MODULE Spec2Model ----
(***************************************************************************)
(* Frosted_Launcher: the installation orchestrator of launcher.py          *)
(* (start_installation / run_installation and the four install steps it    *)
(* drives, download_file, write_config) and download_dependencies of       *)
(* build.py.                                                               *)
(*                                                                         *)
(* The machine (tools on PATH, directories, files) is the environment; the *)
(* worker thread of run_installation is a program counter pc walking the   *)
(* source.  Every external call (subprocess, urlopen, file I/O, message    *)
(* box) is one action whose outcome is drawn from the outcomes the call    *)
(* can have.                                                               *)
(***************************************************************************)
EXTENDS Integers, Sequences, FiniteSets, TLC

\* ---- bounds of the model ------------------------------------------------
MaxBlocks == 2
MaxRuns == 2

\* ---- program constants ---------------------------------------------------
BlockSize == 8192
MinInstallerSize == 1000000

Platforms == {"windows", "linux", "other"}
Steps == <<"python", "git", "requests", "game">>
Tools == {"python", "git", "requests"}
Dirs == {"d1", "d2"}
\* one directory the user can choose: it does not exist, exists without the
\* "snowcaller" subdirectory, has "snowcaller" without game.py, or has both
DirStates == {"nodir", "empty", "nogame", "ok"}
NoFile == 0 - 1
None == "None"
NoDl == [total_size |-> 0, downloaded |-> 0]
NoPrev == [step |-> "none", exc |-> ""]

StepIdx(s) == CASE s = "python" -> 1 [] s = "git" -> 2 [] s = "requests" -> 3 [] s = "game" -> 4

VARIABLES
    OS,          \* platform.system().lower()
    isRoot,      \* os.geteuid() == 0
    present,     \* present[t]: tool t answers its probe command
    dirs,        \* dirs[d]: state of directory d
    files,       \* files[f]: size in blocks of installer file f, NoFile if absent
    config,      \* launcher_config.txt: "absent", "empty" (truncated) or the directory in it
    pc,          \* position of the application / the worker thread
    step,        \* the install step the worker is in
    exc,         \* the exception that ended the run ("" if none)
    install_dir, \* the directory chosen in start_installation
    progress,    \* progress_bar['value'], an exact fraction num/den
    events,      \* what the current run did so far: <<[k, s], ...>>
    dialogs,     \* messages of the ErrorDialogs opened by the current run
    run,         \* number of runs started
    cfgAtStart,  \* config as it was when the current run started
    fresh,       \* the current run started with every probe false
    prev,        \* step and exception of the run that failed before this one
    dl,          \* locals of download_file
    bpc,         \* build.py: position in download_dependencies / main
    git_exe,     \* build.py: size in bytes of git.exe, NoFile if absent
    config_file, \* launcher_config.txt as text: [exists, text], text a sequence of characters
    tree,        \* tree[p]: state of the directory with path p
    cpc,         \* the launcher seen from its config record: off, welcome, menu, ...
    app_install_dir, \* self.install_dir of LauncherApp
    written,     \* the argument of the last write_config
    worker,      \* worker[w]: where thread w of run_installation is
    progress_dialog, \* progress_dialog[w]: "none", "open" or "destroyed"
    error_dialog,    \* error_dialog[w]: the ErrorDialog of thread w is open
    grab,        \* the window that holds the grab (grab_set), "none" if none
    screen,      \* what the main window shows: "welcome" or "menu"
    stats_file,  \* game_stats.json: [kind, value]
    stats,       \* update_stats: the local variable stats
    spc,         \* update_stats: idle, loaded, added, returned or raised
    stats_exc,   \* the exception update_stats raised ("" if none)
    args,        \* update_stats: [deaths, time_played]
    file_at_call, \* game_stats.json as it was when update_stats was called
    save_json,   \* install_dir/snowcaller/save.json exists
    terminals,   \* the terminal emulators whose "--version" probe succeeds
    processes,   \* the processes launch_game started: <<[alive, poll, calls, term], ...>>
    last,        \* what the last click on the menu did
    removed,     \* number of delete_save calls whose os.remove removed save.json
    played       \* sum of the time_played values on_game_exit computed

machine == <<OS, isRoot, present, dirs, files, config>>
runv == <<install_dir, run, cfgAtStart, fresh, prev>>
launcherv == <<OS, isRoot, present, dirs, files, config, pc, step, exc, install_dir,
               progress, events, dialogs, run, cfgAtStart, fresh, prev, dl>>
buildv == <<bpc, git_exe>>
configv == <<config_file, tree, cpc, app_install_dir, written>>
guiv == <<worker, progress_dialog, error_dialog, grab, screen>>
statsv == <<stats_file, stats, spc, stats_exc, args, file_at_call>>
menuv == <<save_json, terminals, processes, last, removed, played>>
viewv == <<configv, guiv, statsv, menuv>>
otherv == <<buildv, viewv>>
vars == <<launcherv, buildv, viewv>>

\* ---- helpers -------------------------------------------------------------
Milestone(v) == [num |-> v, den |-> 1]
Leq(a, b) == a.num * b.den <= b.num * a.den
Log(k) == Append(events, [k |-> k, s |-> step])
LogAs(k, s) == Append(events, [k |-> k, s |-> s])
Has(k, s) == \E i \in 1..Len(events) : events[i] = [k |-> k, s |-> s]
Count(k, s) == Cardinality({i \in 1..Len(events) : events[i] = [k |-> k, s |-> s]})
Installer(s) == IF s = "python" THEN "python_installer.exe" ELSE "git_installer.exe"

\* check_command: the probe command exits 0 iff the tool is on PATH
check_command(tool) == present[tool]

\* read_config: the saved directory, if it exists and holds "snowcaller"
read_config ==
    IF config \in Dirs /\ dirs[config] \in {"nogame", "ok"} THEN config ELSE None

\* update_progress(progress_bar, label, value, text)
update_progress(value) == progress' = Milestone(value)

\* raise: control goes to the except clause of run_installation
Raise(reason) == pc' = "except" /\ exc' = reason

\* ---- initial states ------------------------------------------------------
\* sizes in bytes a file fetched by wget or curl can have
FileSizes == {0, BlockSize, MinInstallerSize - 1, MinInstallerSize, 2 * MinInstallerSize}

\* the launcher has been started: LauncherApp.__init__ has read the config
InitLauncher ==
    /\ OS \in Platforms
    /\ isRoot \in (IF OS = "linux" THEN BOOLEAN ELSE {FALSE})
    /\ present \in [Tools -> BOOLEAN]
    /\ dirs \in [Dirs -> DirStates]
    /\ config \in {"absent"} \cup Dirs
    /\ pc = IF read_config = None THEN "welcome" ELSE "menu"
    /\ bpc = "off"
    /\ git_exe = NoFile

\* build.py has been started, in a directory with or without a git.exe
InitBuild ==
    /\ OS = "linux"
    /\ isRoot = FALSE
    /\ present = [t \in Tools |-> TRUE]
    /\ dirs = [d \in Dirs |-> "nodir"]
    /\ config = "absent"
    /\ pc = "off"
    /\ bpc = "start"
    /\ git_exe \in {NoFile} \cup FileSizes

\* what a run starts from
RunDefaults ==
    /\ files = [f \in {"python_installer.exe", "git_installer.exe"} |-> NoFile]
    /\ step = "none"
    /\ exc = ""
    /\ install_dir = None
    /\ progress = Milestone(0)
    /\ events = <<>>
    /\ dialogs = <<>>
    /\ run = 0
    /\ cfgAtStart = config
    /\ fresh = FALSE
    /\ prev = NoPrev
    /\ dl = NoDl

\* the launcher is not running
LauncherOff ==
    /\ OS = "linux"
    /\ isRoot = FALSE
    /\ present = [t \in Tools |-> TRUE]
    /\ dirs = [d \in Dirs |-> "nodir"]
    /\ config = "absent"
    /\ pc = "off"
    /\ RunDefaults

BuildOff == bpc = "off" /\ git_exe = NoFile

\* the text of the config record is not looked at
ConfigOff ==
    /\ config_file = [exists |-> FALSE, text |-> <<>>]
    /\ tree = <<>>
    /\ cpc = "off"
    /\ app_install_dir = <<>>
    /\ written = <<>>

\* the windows and threads of the launcher are not looked at
GuiOff ==
    /\ worker = <<>>
    /\ progress_dialog = <<>>
    /\ error_dialog = <<>>
    /\ grab = <<"none", 0>>
    /\ screen = "off"

\* ---- game statistics: load_stats, save_stats, update_stats -----------------
MaxStat == 2

StatKeys == {"total_deaths", "total_time", "last_session"}
\* JSON values: a number, a string, null, a list, an object (its fields in f)
Num(k) == [t |-> "num", n |-> k, f |-> <<>>]
Str == [t |-> "str", n |-> 0, f |-> <<>>]
Null == [t |-> "null", n |-> 0, f |-> <<>>]
List == [t |-> "list", n |-> 0, f |-> <<>>]
Obj(fields) == [t |-> "obj", n |-> 0, f |-> fields]
NoFileStats == [kind |-> "absent", value |-> Null]
NoArgs == [deaths |-> 0, time_played |-> 0]

\* the statistics are not looked at
StatsOff ==
    /\ stats_file = NoFileStats
    /\ stats = Null
    /\ spc = "off"
    /\ stats_exc = ""
    /\ args = NoArgs
    /\ file_at_call = NoFileStats

\* ---- the launcher menu: play_game, launch_game, delete_save ----------------
MaxGames == 2

NoClick == [op |-> "none", result |-> "none", message |-> "", probed |-> <<>>, spawned |-> 0]

\* the menu is not looked at
MenuOff ==
    /\ save_json = FALSE
    /\ terminals = {}
    /\ processes = <<>>
    /\ last = NoClick
    /\ removed = 0
    /\ played = 0

ViewsOff == ConfigOff /\ GuiOff /\ StatsOff /\ MenuOff

Init ==
    /\ InitLauncher \/ InitBuild
    /\ RunDefaults
    /\ ViewsOff

\* ---- LauncherApp.start_installation --------------------------------------
start_installation ==
    /\ pc \in {"welcome", "Failed"}
    /\ run < MaxRuns
    /\ \E d \in Dirs \cup {""} :
         IF d = ""
         THEN UNCHANGED vars
         ELSE /\ install_dir' = d
              /\ run' = run + 1
              /\ progress' = Milestone(0)
              /\ events' = <<>>
              /\ dialogs' = <<>>
              /\ exc' = ""
              /\ step' = "none"
              /\ cfgAtStart' = config
              /\ fresh' = /\ \A t \in Tools : ~present[t]
                          /\ dirs[d] \in {"nodir", "empty"}
              /\ prev' = IF pc = "Failed" THEN [step |-> step, exc |-> exc] ELSE NoPrev
              /\ pc' = "probe_python"
              /\ UNCHANGED <<machine, dl>>
    /\ UNCHANGED otherv

\* ---- run_installation: the two probes of the orchestrator ----------------
run_installation_probe_python ==
    /\ pc = "probe_python"
    /\ step' = "python"
    /\ IF check_command("python")
       THEN /\ events' = LogAs("skip", "python")
            /\ pc' = "probe_git"
       ELSE /\ events' = LogAs("need", "python")
            /\ pc' = "py_start"
    /\ UNCHANGED <<machine, runv, exc, progress, dialogs, dl>>
    /\ UNCHANGED otherv

\* faulty variant: install_git is called whatever the probe says
run_installation_probe_git_always ==
    /\ pc = "probe_git"
    /\ step' = "git"
    /\ events' = LogAs(IF check_command("git") THEN "skip" ELSE "need", "git")
    /\ pc' = "git_start"
    /\ UNCHANGED <<machine, runv, exc, progress, dialogs, dl>>
    /\ UNCHANGED otherv

run_installation_probe_git ==
    /\ pc = "probe_git"
    /\ step' = "git"
    /\ IF check_command("git")
       THEN /\ events' = LogAs("skip", "git")
            /\ pc' = "req_start"
       ELSE /\ events' = LogAs("need", "git")
            /\ pc' = "git_start"
    /\ UNCHANGED <<machine, runv, exc, progress, dialogs, dl>>
    /\ UNCHANGED otherv

\* ---- download_file --------------------------------------------------------
\* progress = (downloaded / total_size) * 100
DownloadPercent(downloaded, total) == [num |-> downloaded * 100, den |-> total]

\* faulty variant: the callback forgets the step's base value
update_progress_bar_no_base(base, p) == [num |-> p.num * 2, den |-> p.den * 10]

\* update_progress_bar(progress) of install_python / install_git:
\* progress_bar['value'] = base + progress * 0.2
update_progress_bar(base, p) == [num |-> base * p.den * 10 + p.num * 2, den |-> p.den * 10]

ProgressBase(s) == IF s = "python" THEN 10 ELSE 40

\* urlopen and the status test.  total_size is the content-length header in
\* blocks, 0 when the header is absent.
download_file_urlopen ==
    /\ pc = "dl_urlopen"
    /\ events' = Log("download")
    /\ \E out \in {"urlopen error", "Download failed with status code", "ok"} :
         IF out = "ok"
         THEN \E total \in 0..MaxBlocks :
                /\ dl' = [total_size |-> total, downloaded |-> 0]
                /\ pc' = "dl_open_file"
                /\ UNCHANGED exc
         ELSE /\ dl' = NoDl
              /\ pc' = "dl_except"
              /\ exc' = out
    /\ UNCHANGED <<machine, runv, step, progress, dialogs>>
    /\ UNCHANGED otherv

\* open(file_path, 'wb')
download_file_open ==
    /\ pc = "dl_open_file"
    /\ \E ok \in BOOLEAN :
         IF ok
         THEN /\ files' = [files EXCEPT ![Installer(step)] = 0]
              /\ pc' = "dl_read"
              /\ UNCHANGED exc
         ELSE /\ pc' = "dl_except"
              /\ exc' = "open error"
              /\ UNCHANGED files
    /\ UNCHANGED <<OS, isRoot, present, dirs, config, runv, step, progress, events,
                   dialogs, dl>>
    /\ UNCHANGED otherv

\* what response.read(block_size) can do next: deliver a block (never more
\* than the announced length), deliver b'' (the body ended, or the peer closed
\* the connection early: read() reports both alike), or raise
ReadOutcomes ==
    {"eof", "read error"} \cup
    (IF dl.downloaded < MaxBlocks /\ (dl.total_size = 0 \/ dl.downloaded < dl.total_size)
     THEN {"data", "write error"} ELSE {})

\* one turn of the while loop: read a block, write it, call the callback;
\* an empty buffer ends the loop and download_file returns True
download_file_read ==
    /\ pc = "dl_read"
    /\ \E out \in ReadOutcomes :
         CASE out = "data" ->
                /\ dl' = [dl EXCEPT !.downloaded = @ + 1]
                /\ files' = [files EXCEPT ![Installer(step)] = @ + 1]
                /\ progress' = IF dl.total_size > 0
                               THEN update_progress_bar(ProgressBase(step),
                                        DownloadPercent(dl.downloaded + 1, dl.total_size))
                               ELSE progress
                /\ UNCHANGED <<pc, exc>>
           [] out = "eof" ->
                /\ pc' = IF step = "python" THEN "py_run_installer" ELSE "git_run_installer"
                /\ UNCHANGED <<dl, files, progress, exc>>
           [] OTHER ->
                /\ pc' = "dl_except"
                /\ exc' = out
                /\ UNCHANGED <<dl, files, progress>>
    /\ UNCHANGED <<OS, isRoot, present, dirs, config, runv, step, events, dialogs>>
    /\ UNCHANGED otherv

\* faulty variant: the except clause raises without removing the file
download_file_except_keeps_file ==
    /\ pc = "dl_except"
    /\ dl' = NoDl
    /\ pc' = "except"
    /\ UNCHANGED <<machine, runv, step, exc, progress, events, dialogs>>
    /\ UNCHANGED otherv

\* except Exception: remove the file if it exists, raise
download_file_except ==
    /\ pc = "dl_except"
    /\ files' = [files EXCEPT ![Installer(step)] = NoFile]
    /\ dl' = NoDl
    /\ pc' = "except"
    /\ UNCHANGED <<OS, isRoot, present, dirs, config, runv, step, exc, progress,
                   events, dialogs>>
    /\ UNCHANGED otherv

\* ---- parts the install steps share ---------------------------------------
\* subprocess.run of the downloaded installer; returncode != 0 raises.
\* A zero-length file is not an executable: the command fails.
RunInstaller(s, next, msg) ==
    /\ events' = Log("installer")
    /\ dl' = NoDl
    /\ \E rc \in {0, 1} : \E inst \in BOOLEAN :
         /\ files[Installer(s)] = 0 => (rc = 1 /\ ~inst)
         /\ present' = [present EXCEPT ![s] = @ \/ inst]
         /\ IF rc # 0 THEN Raise(msg) ELSE pc' = next /\ UNCHANGED exc

\* if os.geteuid() != 0: messagebox.askyesno(...); declining raises
SudoConfirm(next) ==
    \E yes \in (IF isRoot THEN {TRUE} ELSE BOOLEAN) :
       IF yes THEN pc' = next /\ UNCHANGED exc
              ELSE Raise("User cancelled sudo operation")

\* subprocess.run("sudo apt update && sudo apt install -y ..."); returncode != 0 raises
AptInstall(tool, next, msg) ==
    /\ events' = Log("pkg")
    /\ \E rc \in {0, 1} : \E inst \in BOOLEAN :
         /\ present' = [present EXCEPT ![tool] = @ \/ inst]
         /\ IF rc # 0 THEN Raise(msg) ELSE pc' = next /\ UNCHANGED exc

\* if not check_command(...): raise Exception("... verification failed")
Verify(tool, next, msg) ==
    IF check_command(tool) THEN pc' = next /\ UNCHANGED exc ELSE Raise(msg)

\* ---- install_python ------------------------------------------------------
install_python_start ==
    /\ pc = "py_start"
    /\ update_progress(10)
    /\ events' = Log("apply")
    /\ pc' = CASE OS = "windows" -> "dl_urlopen"
               [] OS = "linux" -> "py_linux_check"
               [] OTHER -> "py_done"
    /\ UNCHANGED <<machine, runv, step, exc, dialogs, dl>>
    /\ UNCHANGED otherv

install_python_run_installer ==
    /\ pc = "py_run_installer"
    /\ RunInstaller("python", "py_remove_installer", "Python installation failed")
    /\ UNCHANGED <<OS, isRoot, dirs, files, config, runv, step, progress, dialogs>>
    /\ UNCHANGED otherv

install_python_remove_installer ==
    /\ pc = "py_remove_installer"
    /\ files' = [files EXCEPT !["python_installer.exe"] = NoFile]
    /\ pc' = "py_verify"
    /\ UNCHANGED <<OS, isRoot, present, dirs, config, runv, step, exc, progress,
                   events, dialogs, dl>>
    /\ UNCHANGED otherv

install_python_linux_check ==
    /\ pc = "py_linux_check"
    /\ IF check_command("python")
       THEN /\ update_progress(30)
            /\ events' = Log("already")
            /\ pc' = "probe_git"
       ELSE /\ pc' = "py_linux_sudo"
            /\ UNCHANGED <<progress, events>>
    /\ UNCHANGED <<machine, runv, step, exc, dialogs, dl>>
    /\ UNCHANGED otherv

install_python_linux_sudo ==
    /\ pc = "py_linux_sudo"
    /\ SudoConfirm("py_linux_apt")
    /\ UNCHANGED <<machine, runv, step, progress, events, dialogs, dl>>
    /\ UNCHANGED otherv

install_python_linux_apt ==
    /\ pc = "py_linux_apt"
    /\ AptInstall("python", "py_verify", "Python installation failed")
    /\ UNCHANGED <<OS, isRoot, dirs, files, config, runv, step, progress, dialogs, dl>>
    /\ UNCHANGED otherv

install_python_verify ==
    /\ pc = "py_verify"
    /\ Verify("python", "py_done", "Python installation verification failed")
    /\ UNCHANGED <<machine, runv, step, progress, events, dialogs, dl>>
    /\ UNCHANGED otherv

\* faulty variant: install_python returns past the git probe
install_python_done_skips_git ==
    /\ pc = "py_done"
    /\ update_progress(30)
    /\ events' = Log("ok")
    /\ pc' = "req_start"
    /\ UNCHANGED <<machine, runv, step, exc, dialogs, dl>>
    /\ UNCHANGED otherv

install_python_done ==
    /\ pc = "py_done"
    /\ update_progress(30)
    /\ events' = Log("ok")
    /\ pc' = "probe_git"
    /\ UNCHANGED <<machine, runv, step, exc, dialogs, dl>>
    /\ UNCHANGED otherv

\* ---- install_git ---------------------------------------------------------
install_git_start ==
    /\ pc = "git_start"
    /\ update_progress(40)
    /\ events' = Log("apply")
    /\ pc' = "git_check"
    /\ UNCHANGED <<machine, runv, step, exc, dialogs, dl>>
    /\ UNCHANGED otherv

install_git_check ==
    /\ pc = "git_check"
    /\ IF check_command("git")
       THEN /\ update_progress(60)
            /\ events' = Log("already")
            /\ pc' = "req_start"
       ELSE /\ pc' = CASE OS = "windows" -> "dl_urlopen"
                      [] OS = "linux" -> "git_linux_sudo"
                      [] OTHER -> "git_done"
            /\ UNCHANGED <<progress, events>>
    /\ UNCHANGED <<machine, runv, step, exc, dialogs, dl>>
    /\ UNCHANGED otherv

install_git_run_installer ==
    /\ pc = "git_run_installer"
    /\ RunInstaller("git", "git_remove_installer", "Git installation failed")
    /\ UNCHANGED <<OS, isRoot, dirs, files, config, runv, step, progress, dialogs>>
    /\ UNCHANGED otherv

\* faulty variant: exit code 0 of the installer is taken as success
install_git_remove_installer_no_verify ==
    /\ pc = "git_remove_installer"
    /\ files' = [files EXCEPT !["git_installer.exe"] = NoFile]
    /\ pc' = "git_done"
    /\ UNCHANGED <<OS, isRoot, present, dirs, config, runv, step, exc, progress,
                   events, dialogs, dl>>
    /\ UNCHANGED otherv

install_git_remove_installer ==
    /\ pc = "git_remove_installer"
    /\ files' = [files EXCEPT !["git_installer.exe"] = NoFile]
    /\ pc' = "git_verify"
    /\ UNCHANGED <<OS, isRoot, present, dirs, config, runv, step, exc, progress,
                   events, dialogs, dl>>
    /\ UNCHANGED otherv

install_git_linux_sudo ==
    /\ pc = "git_linux_sudo"
    /\ SudoConfirm("git_linux_apt")
    /\ UNCHANGED <<machine, runv, step, progress, events, dialogs, dl>>
    /\ UNCHANGED otherv

install_git_linux_apt ==
    /\ pc = "git_linux_apt"
    /\ AptInstall("git", "git_verify", "Git installation failed")
    /\ UNCHANGED <<OS, isRoot, dirs, files, config, runv, step, progress, dialogs, dl>>
    /\ UNCHANGED otherv

install_git_verify ==
    /\ pc = "git_verify"
    /\ Verify("git", "git_done", "Git installation verification failed")
    /\ UNCHANGED <<machine, runv, step, progress, events, dialogs, dl>>
    /\ UNCHANGED otherv

install_git_done ==
    /\ pc = "git_done"
    /\ update_progress(60)
    /\ events' = Log("ok")
    /\ pc' = "req_start"
    /\ UNCHANGED <<machine, runv, step, exc, dialogs, dl>>
    /\ UNCHANGED otherv

\* ---- install_requests ----------------------------------------------------
\* "import requests" works iff the interpreter and the module are there
Importable == present["python"] /\ present["requests"]

install_requests_start ==
    /\ pc = "req_start"
    /\ step' = "requests"
    /\ update_progress(70)
    /\ events' = LogAs("apply", "requests")
    /\ pc' = "req_check"
    /\ UNCHANGED <<machine, runv, exc, dialogs, dl>>
    /\ UNCHANGED otherv

\* check_cmd prints "Module exists" iff the import works
install_requests_check ==
    /\ pc = "req_check"
    /\ IF Importable
       THEN /\ update_progress(80)
            /\ events' = Log("already")
            /\ pc' = "game_start"
       ELSE /\ pc' = IF OS = "linux" THEN "req_linux_sudo" ELSE "req_pip"
            /\ UNCHANGED <<progress, events>>
    /\ UNCHANGED <<machine, runv, step, exc, dialogs, dl>>
    /\ UNCHANGED otherv

\* faulty variant: a declined confirmation is treated like a failed apt, and
\* the step goes on with pip
install_requests_linux_sudo_falls_back ==
    /\ pc = "req_linux_sudo"
    /\ \E yes \in (IF isRoot THEN {TRUE} ELSE BOOLEAN) :
         pc' = IF yes THEN "req_linux_apt" ELSE "req_pip"
    /\ UNCHANGED <<machine, runv, step, exc, progress, events, dialogs, dl>>
    /\ UNCHANGED otherv

install_requests_linux_sudo ==
    /\ pc = "req_linux_sudo"
    /\ SudoConfirm("req_linux_apt")
    /\ UNCHANGED <<machine, runv, step, progress, events, dialogs, dl>>
    /\ UNCHANGED otherv

\* faulty variant: a failed apt install raises, as it does in install_git
install_requests_linux_apt_raises ==
    /\ pc = "req_linux_apt"
    /\ \E rc \in {0, 1} : \E inst \in BOOLEAN :
         /\ present' = [present EXCEPT !["requests"] = @ \/ inst]
         /\ events' = IF rc # 0 THEN Append(Log("pkg"), [k |-> "fallback", s |-> step])
                                 ELSE Log("pkg")
         /\ IF rc # 0 THEN Raise("Requests installation failed")
                      ELSE pc' = "req_verify" /\ UNCHANGED exc
    /\ UNCHANGED <<OS, isRoot, dirs, files, config, runv, step, progress, dialogs, dl>>
    /\ UNCHANGED otherv

\* apt install python3-requests; a failure falls back to pip instead of
\* raising (the event "fallback" records the exit code other than 0)
install_requests_linux_apt ==
    /\ pc = "req_linux_apt"
    /\ \E rc \in {0, 1} : \E inst \in BOOLEAN :
         /\ present' = [present EXCEPT !["requests"] = @ \/ inst]
         /\ events' = IF rc # 0 THEN Append(Log("pkg"), [k |-> "fallback", s |-> step])
                                 ELSE Log("pkg")
         /\ pc' = IF rc # 0 THEN "req_pip" ELSE "req_verify"
    /\ UNCHANGED <<OS, isRoot, dirs, files, config, runv, step, exc, progress, dialogs, dl>>
    /\ UNCHANGED otherv

\* python -m pip install [--user] requests: pip needs the interpreter
install_requests_pip ==
    /\ pc = "req_pip"
    /\ events' = Log("pip")
    /\ \E rc \in (IF present["python"] THEN {0, 1} ELSE {1}) :
       \E inst \in (IF present["python"] THEN BOOLEAN ELSE {FALSE}) :
         /\ present' = [present EXCEPT !["requests"] = @ \/ inst]
         /\ IF rc # 0 THEN Raise("Requests installation failed")
                      ELSE pc' = "req_verify" /\ UNCHANGED exc
    /\ UNCHANGED <<OS, isRoot, dirs, files, config, runv, step, progress, dialogs, dl>>
    /\ UNCHANGED otherv

\* python -c 'import requests': exit code 0 needs the import to work.  Under
\* the Windows shell the single quotes do not quote, so there the command
\* can fail although the module is importable.
install_requests_verify ==
    /\ pc = "req_verify"
    /\ \E rc \in (IF ~Importable THEN {1} ELSE IF OS = "windows" THEN {0, 1} ELSE {0}) :
         IF rc # 0 THEN Raise("Requests installation verification failed")
                   ELSE pc' = "req_done" /\ UNCHANGED exc
    /\ UNCHANGED <<machine, runv, step, progress, events, dialogs, dl>>
    /\ UNCHANGED otherv

install_requests_done ==
    /\ pc = "req_done"
    /\ update_progress(80)
    /\ events' = Log("ok")
    /\ pc' = "game_start"
    /\ UNCHANGED <<machine, runv, step, exc, dialogs, dl>>
    /\ UNCHANGED otherv

\* ---- setup_game ----------------------------------------------------------
setup_game_start ==
    /\ pc = "game_start"
    /\ step' = "game"
    /\ update_progress(90)
    /\ events' = LogAs("apply", "game")
    /\ pc' = "game_makedirs"
    /\ UNCHANGED <<machine, runv, exc, dialogs, dl>>
    /\ UNCHANGED otherv

\* if not os.path.exists(install_dir): os.makedirs(install_dir)
setup_game_makedirs ==
    /\ pc = "game_makedirs"
    /\ \E ok \in (IF dirs[install_dir] = "nodir" THEN BOOLEAN ELSE {TRUE}) :
         IF ok
         THEN /\ dirs' = [dirs EXCEPT ![install_dir] = IF @ = "nodir" THEN "empty" ELSE @]
              /\ pc' = "game_clone"
              /\ UNCHANGED exc
         ELSE /\ Raise("makedirs failed")
              /\ UNCHANGED dirs
    /\ UNCHANGED <<OS, isRoot, present, files, config, runv, step, progress, events,
                   dialogs, dl>>
    /\ UNCHANGED otherv

\* if not os.path.exists("snowcaller"): git clone; returncode != 0 raises.
\* The clone needs git; what it delivers is the remote repository's content.
setup_game_clone ==
    /\ pc = "game_clone"
    /\ IF dirs[install_dir] = "empty"
       THEN /\ events' = Log("clone")
            /\ \E rc \in (IF present["git"] THEN {0, 1} ELSE {1}) : \E game_py \in BOOLEAN :
                 IF rc # 0
                 THEN /\ Raise("Git clone failed")
                      /\ UNCHANGED dirs
                 ELSE /\ dirs' = [dirs EXCEPT ![install_dir] = IF game_py THEN "ok" ELSE "nogame"]
                      /\ pc' = "game_verify"
                      /\ UNCHANGED exc
       ELSE /\ pc' = "game_verify"
            /\ UNCHANGED <<events, dirs, exc>>
    /\ UNCHANGED <<OS, isRoot, present, files, config, runv, step, progress, dialogs, dl>>
    /\ UNCHANGED otherv

\* required_files = ["game.py"]; then update_progress(100) and return
setup_game_verify ==
    /\ pc = "game_verify"
    /\ IF dirs[install_dir] = "ok"
       THEN /\ update_progress(100)
            /\ events' = Log("ok")
            /\ pc' = "write_config"
            /\ UNCHANGED exc
       ELSE /\ Raise("Required game file not found: game.py")
            /\ UNCHANGED <<progress, events>>
    /\ UNCHANGED <<machine, runv, step, dialogs, dl>>
    /\ UNCHANGED otherv

\* ---- write_config --------------------------------------------------------
\* os.makedirs(config_dir) if needed, then open(config_path, 'w'), which
\* truncates the file
write_config_open ==
    /\ pc = "write_config"
    /\ \E ok \in BOOLEAN :
         IF ok
         THEN /\ config' = "empty"
              /\ events' = LogAs("write_config", "config")
              /\ pc' = "write_config_write"
              /\ UNCHANGED exc
         ELSE /\ Raise("cannot open config file")
              /\ UNCHANGED <<config, events>>
    /\ UNCHANGED <<OS, isRoot, present, dirs, files, runv, step, progress, dialogs, dl>>
    /\ UNCHANGED otherv

\* f.write(f"install_dir={install_dir}") and the close of the with block
write_config_write ==
    /\ pc = "write_config_write"
    /\ \E ok \in BOOLEAN :
         IF ok
         THEN /\ config' = install_dir
              /\ pc' = IF OS = "linux" THEN "desktop_icon" ELSE "finish"
              /\ UNCHANGED exc
         ELSE /\ Raise("cannot write config file")
              /\ UNCHANGED config
    /\ UNCHANGED <<OS, isRoot, present, dirs, files, runv, step, progress, events,
                   dialogs, dl>>
    /\ UNCHANGED otherv

\* ---- create_desktop_icon (Linux only) ------------------------------------
\* makedirs, shutil.copy, open(desktop_dest, 'w'), chmod: any of them can raise
create_desktop_icon ==
    /\ pc = "desktop_icon"
    /\ \E ok \in BOOLEAN :
         IF ok THEN pc' = "finish" /\ UNCHANGED exc
               ELSE Raise("cannot create desktop icon")
    /\ UNCHANGED <<machine, runv, step, progress, events, dialogs, dl>>
    /\ UNCHANGED otherv

\* ---- run_installation: the two ends --------------------------------------
\* self.install_dir = install_dir; progress_dialog.destroy(); show_launcher_menu()
run_installation_finish ==
    /\ pc = "finish"
    /\ pc' = "Complete"
    /\ UNCHANGED <<machine, runv, step, exc, progress, events, dialogs, dl>>
    /\ UNCHANGED otherv

\* faulty variant: the except clause starts the run over instead of ending it
run_installation_except_retries ==
    /\ pc = "except"
    /\ pc' = "probe_python"
    /\ UNCHANGED <<machine, runv, step, exc, progress, events, dialogs, dl>>
    /\ UNCHANGED otherv

\* faulty variant: the clause is "except CalledProcessError", as in
\* check_command: the exception of a step leaves the thread and no dialog opens
run_installation_except_escapes ==
    /\ pc = "except"
    /\ pc' = "escaped"
    /\ UNCHANGED <<machine, runv, step, exc, progress, events, dialogs, dl>>
    /\ UNCHANGED otherv

\* except Exception as e: progress_dialog.destroy(); ErrorDialog(...)
run_installation_except ==
    /\ pc = "except"
    /\ dialogs' = Append(dialogs, exc)
    /\ pc' = "Failed"
    /\ UNCHANGED <<machine, runv, step, exc, progress, events, dl>>
    /\ UNCHANGED otherv

\* ---- build.py: download_dependencies and main -----------------------------
\* if not os.path.exists(output_file): download, else "File already exists"
download_dependencies_start ==
    /\ bpc = "start"
    /\ bpc' = IF git_exe = NoFile THEN "wget" ELSE "verify"
    /\ UNCHANGED <<git_exe, launcherv, viewv>>

\* wget ... -O git.exe: a missing wget raises FileNotFoundError, which the
\* except Exception clause handles; wget opens the output file at once
download_dependencies_wget ==
    /\ bpc = "wget"
    /\ \E out \in {"ok", "failed", "missing"} : \E size \in FileSizes :
         CASE out = "ok" -> git_exe' = size /\ bpc' = "downloaded"
           [] out = "failed" -> git_exe' = size /\ bpc' = "curl"
           [] OTHER -> git_exe' = NoFile /\ bpc' = "failed"
    /\ UNCHANGED <<launcherv, viewv>>

\* curl -L ... -o git.exe; a failure ends in the except clauses, which remove
\* the file and raise
download_dependencies_curl ==
    /\ bpc = "curl"
    /\ \E ok \in BOOLEAN : \E size \in FileSizes :
         IF ok THEN git_exe' = size /\ bpc' = "downloaded"
               ELSE git_exe' = NoFile /\ bpc' = "failed"
    /\ UNCHANGED <<launcherv, viewv>>

\* Verify the downloaded file: it exists and is not empty
download_dependencies_downloaded ==
    /\ bpc = "downloaded"
    /\ IF git_exe = NoFile \/ git_exe = 0
       THEN git_exe' = NoFile /\ bpc' = "failed"
       ELSE bpc' = "verify" /\ UNCHANGED git_exe
    /\ UNCHANGED <<launcherv, viewv>>

\* Verify the file is valid: file_size < 1000000 removes it and raises
download_dependencies_verify ==
    /\ bpc = "verify"
    /\ IF git_exe # NoFile /\ git_exe < MinInstallerSize
       THEN git_exe' = NoFile /\ bpc' = "failed"
       ELSE bpc' = "done" /\ UNCHANGED git_exe
    /\ UNCHANGED <<launcherv, viewv>>

\* main: git.exe must exist, then build_executable packages it
main_build_executable ==
    /\ bpc = "done"
    /\ bpc' = IF git_exe = NoFile THEN "failed" ELSE "packaged"
    /\ UNCHANGED <<git_exe, launcherv, viewv>>

\* ---- the config record as text: write_config, read_config ----------------
MaxPathLen == 2

\* f"install_dir=", character by character
Prefix == <<"i", "n", "s", "t", "a", "l", "l", "_", "d", "i", "r", "=">>
LF == "\n"
\* a byte the text decoding of open(config_path, 'r') rejects
Undecodable == "xff"
\* what str.strip() removes
Whitespace == {" ", LF}
TreeStates == {"nodir", "nosub", "sub"}
NonePath == <<>>

\* absolute paths a directory dialog can return
Paths == {<<"/">> \o t : t \in UNION {[1..n -> {"a", " "}] : n \in 1..MaxPathLen}}

RECURSIVE lstrip(_)
lstrip(s) == IF s # <<>> /\ Head(s) \in Whitespace THEN lstrip(Tail(s)) ELSE s

RECURSIVE rstrip(_)
rstrip(s) ==
    IF s # <<>> /\ s[Len(s)] \in Whitespace THEN rstrip(SubSeq(s, 1, Len(s) - 1)) ELSE s

strip(s) == rstrip(lstrip(s))

\* index of the first c in s, 0 if there is none
find(s, c) ==
    LET at == {i \in 1..Len(s) : s[i] = c}
    IN IF at = {} THEN 0 ELSE CHOOSE i \in at : \A j \in at : i <= j

\* f.readlines(): the lines, each with its line end
RECURSIVE readlines(_)
readlines(text) ==
    IF text = <<>> THEN <<>>
    ELSE LET n == IF find(text, LF) = 0 THEN Len(text) ELSE find(text, LF)
         IN <<SubSeq(text, 1, n)>> \o readlines(SubSeq(text, n + 1, Len(text)))

startswith(s, p) == Len(s) >= Len(p) /\ SubSeq(s, 1, Len(p)) = p

\* s.split("=", 1)[1] of a string that holds an "="
split_1(s) == SubSeq(s, find(s, "=") + 1, Len(s))

path_exists(t, p) == p \in DOMAIN t /\ t[p] # "nodir"
game_exists(t, p) == p \in DOMAIN t /\ t[p] = "sub"

Returns(d) == [raised |-> FALSE, dir |-> d]
Raises == [raised |-> TRUE, dir |-> NonePath]

\* faulty variant: the saved directory is returned if it exists, with or
\* without the game subdirectory
read_config_text_no_game_test(file, t) ==
    IF ~file.exists THEN Returns(NonePath)
    ELSE IF \E i \in 1..Len(file.text) : file.text[i] = Undecodable THEN Raises
    ELSE LET lines == readlines(file.text)
         IN IF lines # <<>> /\ startswith(lines[1], Prefix)
            THEN LET saved_dir == strip(split_1(lines[1]))
                 IN IF path_exists(t, saved_dir)
                    THEN Returns(saved_dir) ELSE Returns(NonePath)
            ELSE Returns(NonePath)

\* read_config(base_dir) on the file as text and the directory tree t
read_config_text(file, t) ==
    IF ~file.exists THEN Returns(NonePath)
    ELSE IF \E i \in 1..Len(file.text) : file.text[i] = Undecodable THEN Raises
    ELSE LET lines == readlines(file.text)
         IN IF lines # <<>> /\ startswith(lines[1], Prefix)
            THEN LET saved_dir == strip(split_1(lines[1]))
                 IN IF path_exists(t, saved_dir) /\ game_exists(t, saved_dir)
                    THEN Returns(saved_dir) ELSE Returns(NonePath)
            ELSE Returns(NonePath)

\* f.write(f"install_dir={install_dir}")
write_config_text(d) == [exists |-> TRUE, text |-> Prefix \o d]

\* texts a config file can hold when the launcher starts
InitialTexts ==
    { <<>>, <<"a">>, <<LF>>, <<Undecodable>>, Prefix,
      SubSeq(Prefix, 1, 11) \o <<"/", "a">>,
      Prefix \o <<"/", "a">>,
      Prefix \o <<"/", "a", LF>>,
      <<LF>> \o Prefix \o <<"/", "a">>,
      Prefix \o <<"/", "a", LF, Undecodable>> }

\* the launcher is not running; some directories exist, and a config file may
InitConfig ==
    /\ LauncherOff
    /\ BuildOff
    /\ \E d \in Paths : tree \in [{d, strip(d), <<"/", "a">>} -> TreeStates]
    /\ config_file \in {[exists |-> FALSE, text |-> <<>>]} \cup
                       {[exists |-> TRUE, text |-> t] : t \in InitialTexts}
    /\ cpc = "off"
    /\ app_install_dir = NonePath
    /\ written = NonePath
    /\ GuiOff
    /\ StatsOff
    /\ MenuOff

Rank(st) == CASE st = "nodir" -> 0 [] st = "nosub" -> 1 [] st = "sub" -> 2

\* the trees t can have become while the launcher was not running:
\* directories and game subdirectories may have been removed
Removed(t) == {u \in [DOMAIN t -> TreeStates] : \A p \in DOMAIN t : Rank(u[p]) <= Rank(t[p])}

\* main() / LauncherApp.__init__: self.install_dir = read_config(self.base_dir),
\* then the menu or the welcome screen; an exception of read_config ends main
LauncherApp_init ==
    /\ cpc = "off"
    /\ \E u \in Removed(tree) :
         /\ tree' = u
         /\ LET r == read_config_text(config_file, u)
            IN IF r.raised
               THEN cpc' = "crashed" /\ UNCHANGED app_install_dir
               ELSE /\ app_install_dir' = r.dir
                    /\ cpc' = IF r.dir # NonePath THEN "menu" ELSE "welcome"
    /\ UNCHANGED <<config_file, written, launcherv, buildv, guiv, statsv, menuv>>

\* run_installation from the welcome screen, all steps succeeding: setup_game
\* leaves install_dir with the game in it, write_config(install_dir),
\* self.install_dir = install_dir, show_launcher_menu()
run_installation_record ==
    /\ cpc = "welcome"
    /\ \E d \in DOMAIN tree :
         /\ tree' = [tree EXCEPT ![d] = "sub"]
         /\ config_file' = write_config_text(d)
         /\ written' = d
         /\ app_install_dir' = d
    /\ cpc' = "installed"
    /\ UNCHANGED <<launcherv, buildv, guiv, statsv, menuv>>

\* on_closing: root.quit(), root.destroy()
on_closing ==
    /\ cpc \in {"welcome", "menu", "installed"}
    /\ cpc' = "off"
    /\ app_install_dir' = NonePath
    /\ UNCHANGED <<config_file, tree, written, launcherv, buildv, guiv, statsv, menuv>>

\* ---- windows and threads: start_installation, ProgressDialog, ErrorDialog ----
MaxWorkers == 2

Workers == 1..MaxWorkers
\* where a thread of run_installation can be: not started, before its first
\* step, in one of the four steps, in write_config / create_desktop_icon, over
Positions == {"unborn", "started", "python", "git", "requests", "game", "write_config", "ended"}

\* the positions run_installation can go to next: install_python and
\* install_git are skipped when their probe is true
NextPositions(p) ==
    CASE p = "started" -> {"python", "git", "requests"}
      [] p = "python" -> {"git", "requests"}
      [] p = "git" -> {"requests"}
      [] p = "requests" -> {"game"}
      [] p = "game" -> {"write_config"}
      [] OTHER -> {"ended"}

PDialog(w) == <<"progress", w>>
EDialog(w) == <<"error", w>>
NoGrab == <<"none", 0>>

\* the launcher shows the welcome screen; no thread, no dialog
InitGui ==
    /\ LauncherOff
    /\ BuildOff
    /\ ConfigOff
    /\ worker = [w \in Workers |-> "unborn"]
    /\ progress_dialog = [w \in Workers |-> "none"]
    /\ error_dialog = [w \in Workers |-> FALSE]
    /\ grab = NoGrab
    /\ screen = "welcome"
    /\ StatsOff
    /\ MenuOff

\* the "Install Game" button of the welcome screen, which the main window
\* gets only while no other window holds the grab: askdirectory, then
\* ProgressDialog(...) (ModernDialog.__init__ calls grab_set) and
\* threading.Thread(target=run_installation).start()
gui_start_installation ==
    /\ screen = "welcome"
    /\ grab = NoGrab
    /\ \E chosen \in BOOLEAN :
         IF ~chosen
         THEN UNCHANGED guiv
         ELSE \E w \in Workers :
                /\ worker[w] = "unborn"
                /\ \A v \in Workers : v < w => worker[v] # "unborn"
                /\ worker' = [worker EXCEPT ![w] = "started"]
                /\ progress_dialog' = [progress_dialog EXCEPT ![w] = "open"]
                /\ grab' = PDialog(w)
                /\ UNCHANGED <<error_dialog, screen>>
    /\ UNCHANGED <<launcherv, buildv, configv, statsv, menuv>>

\* the user closes the progress window: ProgressDialog sets no
\* WM_DELETE_WINDOW handler, so the window is destroyed and its grab released
progress_dialog_close ==
    /\ \E w \in Workers :
         /\ progress_dialog[w] = "open"
         /\ grab = PDialog(w)
         /\ progress_dialog' = [progress_dialog EXCEPT ![w] = "destroyed"]
         /\ grab' = NoGrab
    /\ UNCHANGED <<worker, error_dialog, screen, launcherv, buildv, configv, statsv, menuv>>

\* except Exception: progress_dialog.destroy(); ErrorDialog(...), which takes the grab
WorkerFails(w) ==
    /\ worker' = [worker EXCEPT ![w] = "ended"]
    /\ progress_dialog' = [progress_dialog EXCEPT ![w] = "destroyed"]
    /\ error_dialog' = [error_dialog EXCEPT ![w] = TRUE]
    /\ grab' = EDialog(w)
    /\ UNCHANGED screen

\* thread w goes on: a step ends and the next one starts, both with
\* update_progress on the progress bar, which raises once the window is
\* destroyed; any step can raise by itself; after write_config the dialog is
\* destroyed and the menu shown
gui_run_installation ==
    /\ \E w \in Workers :
         /\ worker[w] \notin {"unborn", "ended"}
         /\ \E ok \in BOOLEAN : \E next \in NextPositions(worker[w]) :
              IF ~ok \/ (progress_dialog[w] = "destroyed" /\ next # "ended")
              THEN WorkerFails(w)
              ELSE IF next = "ended"
              THEN /\ worker' = [worker EXCEPT ![w] = "ended"]
                   /\ progress_dialog' = [progress_dialog EXCEPT ![w] = "destroyed"]
                   /\ grab' = IF grab = PDialog(w) THEN NoGrab ELSE grab
                   /\ screen' = "menu"
                   /\ UNCHANGED error_dialog
              ELSE /\ worker' = [worker EXCEPT ![w] = next]
                   /\ UNCHANGED <<progress_dialog, error_dialog, grab, screen>>
    /\ UNCHANGED <<launcherv, buildv, configv, statsv, menuv>>

\* the OK button of an ErrorDialog (command=self.destroy), or its close button
error_dialog_ok ==
    /\ \E w \in Workers :
         /\ error_dialog[w]
         /\ grab = EDialog(w)
         /\ error_dialog' = [error_dialog EXCEPT ![w] = FALSE]
         /\ grab' = NoGrab
    /\ UNCHANGED <<worker, progress_dialog, screen, launcherv, buildv, configv, statsv, menuv>>

\* ---- load_stats, save_stats, update_stats ---------------------------------
\* {'total_deaths': 0, 'total_time': 0, 'last_session': None}
Zeroed == Obj([total_deaths |-> Num(0), total_time |-> Num(0), last_session |-> Null])

FieldValues == {Num(0), Num(1), Str, Null}
\* what json.load can return: any JSON value
JsonValues ==
    {Num(0), Str, Null, List} \cup
    {Obj(fields) : fields \in UNION {[K -> FieldValues] : K \in SUBSET StatKeys}}

\* the file is absent, empty, text that is not JSON, bytes that are not text
\* in the locale's encoding, or JSON
StatsFiles ==
    {[kind |-> k, value |-> Null] : k \in {"absent", "empty", "garbage", "binary"}} \cup
    {[kind |-> "json", value |-> v] : v \in JsonValues}

Loaded(v) == [raised |-> "", value |-> v]
LoadRaises(e) == [raised |-> e, value |-> Null]

\* faulty variant: the JSONDecodeError is not caught
load_stats_no_except(file) ==
    CASE file.kind = "absent" -> Loaded(Zeroed)
      [] file.kind \in {"empty", "garbage"} -> LoadRaises("JSONDecodeError")
      [] file.kind = "binary" -> LoadRaises("UnicodeDecodeError")
      [] OTHER -> Loaded(file.value)

\* load_stats: json.load(f) of an existing file; except json.JSONDecodeError
\* gives the zeroed record; a UnicodeDecodeError is not a JSONDecodeError
load_stats(file) ==
    CASE file.kind = "absent" -> Loaded(Zeroed)
      [] file.kind \in {"empty", "garbage"} -> Loaded(Zeroed)
      [] file.kind = "binary" -> LoadRaises("UnicodeDecodeError")
      [] OTHER -> Loaded(file.value)

IsCount(v, key) == v.t = "obj" /\ key \in DOMAIN v.f /\ v.f[key].t = "num"

\* update_stats is called, by delete_save (deaths=1) or launch_game
\* (time_played=...); it starts with stats = load_stats()
update_stats_load ==
    /\ spc = "idle"
    /\ \E a \in [deaths : {0, 1}, time_played : {0, 1}] :
         /\ IsCount(stats_file.value, "total_deaths") =>
               stats_file.value.f["total_deaths"].n + a.deaths <= MaxStat
         /\ IsCount(stats_file.value, "total_time") =>
               stats_file.value.f["total_time"].n + a.time_played <= MaxStat
         /\ args' = a
    /\ file_at_call' = stats_file
    /\ LET r == load_stats(stats_file)
       IN IF r.raised # ""
          THEN spc' = "raised" /\ stats_exc' = r.raised /\ stats' = Null
          ELSE spc' = "loaded" /\ stats_exc' = "" /\ stats' = r.value
    /\ UNCHANGED <<stats_file, launcherv, buildv, configv, guiv, menuv>>

\* stats[key] += amount: what it raises, "" if it works
AddRaises(v, key) ==
    IF v.t \in {"list", "str", "num", "null"} THEN "TypeError"
    ELSE IF key \notin DOMAIN v.f THEN "KeyError"
    ELSE IF v.f[key].t # "num" THEN "TypeError"
    ELSE ""

Add(v, key, amount) == Obj([v.f EXCEPT ![key] = Num(@.n + amount)])

\* item assignment on a dict: sets the key, present or not
SetItem(v, key, x) == Obj([k \in DOMAIN v.f \cup {key} |-> IF k = key THEN x ELSE v.f[k]])

\* stats['total_deaths'] += deaths; stats['total_time'] += time_played;
\* stats['last_session'] = datetime.now().isoformat()
update_stats_add ==
    /\ spc = "loaded"
    /\ IF AddRaises(stats, "total_deaths") # ""
       THEN spc' = "raised" /\ stats_exc' = AddRaises(stats, "total_deaths") /\ UNCHANGED stats
       ELSE IF AddRaises(stats, "total_time") # ""
       THEN /\ spc' = "raised"
            /\ stats_exc' = AddRaises(stats, "total_time")
            /\ stats' = Add(stats, "total_deaths", args.deaths)
       ELSE /\ spc' = "added"
            /\ stats' = SetItem(Add(Add(stats, "total_deaths", args.deaths),
                                    "total_time", args.time_played),
                                "last_session", Str)
            /\ UNCHANGED stats_exc
    /\ UNCHANGED <<stats_file, args, file_at_call, launcherv, buildv, configv, guiv, menuv>>

\* save_stats: open(stats_file, 'w') truncates, json.dump writes
save_stats ==
    /\ spc = "added"
    /\ \E ok \in BOOLEAN :
         IF ok
         THEN /\ stats_file' = [kind |-> "json", value |-> stats]
              /\ spc' = "returned"
              /\ UNCHANGED stats_exc
         ELSE /\ stats_file' = [kind |-> "empty", value |-> Null]
              /\ spc' = "raised"
              /\ stats_exc' = "OSError"
    /\ UNCHANGED <<stats, args, file_at_call, launcherv, buildv, configv, guiv, menuv>>

\* update_stats is over, by return or by exception, and its caller goes on
update_stats_return ==
    /\ spc \in {"returned", "raised"}
    /\ spc' = "idle"
    /\ stats' = Null
    /\ stats_exc' = ""
    /\ args' = NoArgs
    /\ UNCHANGED <<stats_file, file_at_call, launcherv, buildv, configv, guiv, menuv>>

\* the launcher is running and no call of update_stats is under way
InitStats ==
    /\ LauncherOff
    /\ BuildOff
    /\ ConfigOff
    /\ GuiOff
    /\ stats_file \in StatsFiles
    /\ stats = Null
    /\ spc = "idle"
    /\ stats_exc = ""
    /\ args = NoArgs
    /\ file_at_call = stats_file
    /\ MenuOff

\* ---- the launcher menu: Play Game and Delete Save ---------------------------
\* the terminal emulators launch_game tries on Linux, in its order
Terminals == <<"gnome-terminal", "xfce4-terminal", "konsole", "xterm">>
TerminalSet == {Terminals[i] : i \in 1..Len(Terminals)}

\* how the write of save_stats can end: it works, open(stats_file, 'w') raises
\* (the file is left as it was), or json.dump raises after the truncation
IoOutcomes == {"ok", "open fails", "write fails"}

Unchanged(file, e) == [file |-> file, raised |-> e]

\* update_stats(deaths, time_played), as one call in the Tk main thread:
\* load_stats, the two +=, last_session, save_stats
update_stats(file, deaths, time_played, io) ==
    LET r == load_stats(file)
    IN IF r.raised # "" THEN Unchanged(file, r.raised)
       ELSE IF AddRaises(r.value, "total_deaths") # ""
       THEN Unchanged(file, AddRaises(r.value, "total_deaths"))
       ELSE IF AddRaises(r.value, "total_time") # ""
       THEN Unchanged(file, AddRaises(r.value, "total_time"))
       ELSE IF io = "open fails" THEN Unchanged(file, "OSError")
       ELSE IF io = "write fails"
       THEN [file |-> [kind |-> "empty", value |-> Null], raised |-> "OSError"]
       ELSE [file |-> [kind |-> "json",
                       value |-> SetItem(Add(Add(r.value, "total_deaths", deaths),
                                             "total_time", time_played),
                                         "last_session", Str)],
             raised |-> ""]

Deleted(save, file, result, message) ==
    [save |-> save, file |-> file, result |-> result, message |-> message]

\* faulty variant: a death is recorded although there is no save file
delete_save_counts_missing(exists, rm_ok, file, io) ==
    LET u == update_stats(file, 1, 0, io)
    IN IF exists /\ ~rm_ok
       THEN Deleted(TRUE, file, "False", "Failed to delete save file")
       ELSE IF u.raised # ""
       THEN Deleted(FALSE, u.file, "False", "Failed to delete save file")
       ELSE Deleted(FALSE, u.file, "True", "Save file deleted and death recorded.")

\* delete_save(install_dir): exists is os.path.exists(save_file), rm_ok is
\* whether os.remove works; gives save.json and game_stats.json afterwards,
\* the value returned and the text of the message box
delete_save(exists, rm_ok, file, io) ==
    IF exists
    THEN IF ~rm_ok
         THEN Deleted(TRUE, file, "False", "Failed to delete save file")
         ELSE LET u == update_stats(file, 1, 0, io)
              IN IF u.raised # ""
                 THEN Deleted(FALSE, u.file, "False", "Failed to delete save file")
                 ELSE Deleted(FALSE, u.file, "True", "Save file deleted and death recorded.")
    ELSE Deleted(exists, file, "False", "No save file found.")

\* LauncherApp.delete_save, the "Delete Save" button: delete_save, then
\* show_launcher_menu draws the menu again from load_stats()
LauncherApp_delete_save ==
    /\ pc = "menu"
    /\ removed < MaxStat
    /\ \E rm_ok \in BOOLEAN, io \in IoOutcomes :
         LET r == delete_save(save_json, rm_ok, stats_file, io)
         IN /\ save_json' = r.save
            /\ stats_file' = r.file
            /\ removed' = IF save_json /\ ~r.save THEN removed + 1 ELSE removed
            /\ last' = [op |-> "delete_save", result |-> r.result, message |-> r.message,
                        probed |-> <<>>, spawned |-> 0]
    /\ UNCHANGED <<terminals, processes, played>>
    /\ UNCHANGED <<stats, spc, stats_exc, args, file_at_call>>
    /\ UNCHANGED <<launcherv, buildv, configv, guiv>>

Launched(result, message, probed, spawned, term) ==
    [result |-> result, message |-> message, probed |-> probed, spawned |-> spawned,
     term |-> term]

RECURSIVE try_terminals_backwards(_, _, _)
\* faulty variant: the list of terminals is walked from its end
try_terminals_backwards(i, T, probed) ==
    LET term == Terminals[Len(Terminals) + 1 - i]
    IN IF i > Len(Terminals)
       THEN Launched("False", "No supported terminal found", probed, 0, "none")
       ELSE IF term \in T
       THEN Launched("True", "", Append(probed, term), 1, term)
       ELSE try_terminals_backwards(i + 1, T, Append(probed, term))

RECURSIVE try_terminals(_, _, _)
\* for term, cmd in terminals: if check_command(f"{term} --version"): Popen,
\* root.after(1000, check_process), return True; after the loop, showerror
\* and return False.  T is the set of terminals whose probe succeeds.
try_terminals(i, T, probed) ==
    IF i > Len(Terminals)
    THEN Launched("False", "No supported terminal found", probed, 0, "none")
    ELSE IF Terminals[i] \in T
    THEN Launched("True", "", Append(probed, Terminals[i]), 1, Terminals[i])
    ELSE try_terminals(i + 1, T, Append(probed, Terminals[i]))

NotFound == "Game directory or script not found"

\* faulty variant: the game directory and game.py are not looked for
launch_game_no_check(os, dir, python, T) ==
    IF os = "windows"
    THEN IF python
         THEN Launched("True", "", <<>>, 1, "python")
         ELSE Launched("False", "Failed to launch game", <<>>, 0, "none")
    ELSE IF os = "linux"
    THEN try_terminals(1, T, <<>>)
    ELSE Launched("None", "", <<>>, 0, "none")

\* launch_game(install_dir, root): dir is the state of install_dir, python is
\* whether "python" can be started; on Windows Popen([python, "game.py"])
\* raises when it cannot, and the except clause returns False; on a platform
\* that is neither windows nor linux the function ends without a return
launch_game(os, dir, python, T) ==
    IF dir # "ok"
    THEN Launched("False", NotFound, <<>>, 0, "none")
    ELSE IF os = "windows"
    THEN IF python
         THEN Launched("True", "", <<>>, 1, "python")
         ELSE Launched("False", "Failed to launch game", <<>>, 0, "none")
    ELSE IF os = "linux"
    THEN try_terminals(1, T, <<>>)
    ELSE Launched("None", "", <<>>, 0, "none")

\* LauncherApp.play_game, the "Play Game" button: launch_game; the process it
\* started is polled by check_process one second later
play_game ==
    /\ pc = "menu"
    /\ Len(processes) < MaxGames
    /\ LET r == launch_game(OS, dirs[install_dir], present["python"], terminals)
       IN /\ processes' =
               IF r.spawned = 1
               THEN Append(processes, [alive |-> TRUE, poll |-> TRUE, calls |-> 0,
                                       term |-> r.term])
               ELSE processes
          /\ last' = [op |-> "play_game", result |-> r.result, message |-> r.message,
                      probed |-> r.probed, spawned |-> r.spawned]
    /\ UNCHANGED <<save_json, terminals, removed, played>>
    /\ UNCHANGED <<launcherv, buildv, configv, guiv, statsv>>

\* check_process of process i, run by root.after: the process is still
\* running and the poll is scheduled again, or it has ended and on_game_exit
\* runs: update_stats(time_played), root.quit(), root.destroy().  An exception
\* of update_stats ends the callback before root.quit().  time_played is
\* int(time.time() - start_time), the whole seconds since launch_game.
check_process ==
    /\ pc = "menu"
    /\ \E i \in 1..Len(processes), io \in IoOutcomes, time_played \in 0..(MaxStat - played) :
         /\ processes[i].poll
         /\ IF processes[i].alive
            THEN UNCHANGED <<processes, stats_file, played, pc>>
            ELSE LET u == update_stats(stats_file, 0, time_played, io)
                 IN /\ processes' = [processes EXCEPT ![i].poll = FALSE,
                                                      ![i].calls = @ + 1]
                    /\ stats_file' = u.file
                    /\ played' = played + time_played
                    /\ pc' = IF u.raised = "" THEN "closed" ELSE pc
    /\ UNCHANGED <<save_json, terminals, last, removed>>
    /\ UNCHANGED <<stats, spc, stats_exc, args, file_at_call>>
    /\ UNCHANGED <<OS, isRoot, present, dirs, files, config, step, exc, install_dir,
                   progress, events, dialogs, run, cfgAtStart, fresh, prev, dl>>
    /\ UNCHANGED <<buildv, configv, guiv>>

\* a process launch_game started ends
game_exit ==
    /\ \E i \in 1..Len(processes) :
         /\ processes[i].alive
         /\ processes' = [processes EXCEPT ![i].alive = FALSE]
    /\ UNCHANGED <<save_json, terminals, last, removed, played>>
    /\ UNCHANGED <<launcherv, buildv, configv, guiv, statsv>>

\* a running game writes its save file
game_saves ==
    /\ \E i \in 1..Len(processes) : processes[i].alive
    /\ dirs[install_dir] \in {"nogame", "ok"}
    /\ ~save_json
    /\ save_json' = TRUE
    /\ UNCHANGED <<terminals, processes, last, removed, played>>
    /\ UNCHANGED <<launcherv, buildv, configv, guiv, statsv>>

\* the user removes game.py, the "snowcaller" directory or install_dir
game_removed ==
    /\ dirs[install_dir] = "ok"
    /\ \E s \in {"nodir", "empty", "nogame"} :
         /\ dirs' = [dirs EXCEPT ![install_dir] = s]
         /\ save_json' = (save_json /\ s = "nogame")
    /\ UNCHANGED <<terminals, processes, last, removed, played>>
    /\ UNCHANGED <<OS, isRoot, present, files, config, pc, step, exc, install_dir,
                   progress, events, dialogs, run, cfgAtStart, fresh, prev, dl>>
    /\ UNCHANGED <<buildv, configv, guiv, statsv>>

\* the launcher shows its menu: the saved directory was found at start-up
InitMenu ==
    /\ OS \in Platforms
    /\ isRoot = FALSE
    /\ present \in {[t \in Tools |-> TRUE]} \cup
                  (IF OS = "windows" THEN {[t \in Tools |-> t # "python"]} ELSE {})
    /\ \E s \in DirStates : dirs = [d \in Dirs |-> IF d = "d1" THEN s ELSE "nodir"]
    /\ config = "d1"
    /\ pc = "menu"
    /\ install_dir = "d1"
    /\ files = [f \in {"python_installer.exe", "git_installer.exe"} |-> NoFile]
    /\ step = "none"
    /\ exc = ""
    /\ progress = Milestone(0)
    /\ events = <<>>
    /\ dialogs = <<>>
    /\ run = 0
    /\ cfgAtStart = config
    /\ fresh = FALSE
    /\ prev = NoPrev
    /\ dl = NoDl
    /\ BuildOff
    /\ ConfigOff
    /\ GuiOff
    /\ StatsOff
    /\ save_json \in (IF dirs["d1"] \in {"nogame", "ok"} THEN BOOLEAN ELSE {FALSE})
    /\ terminals \in (IF OS = "linux" THEN SUBSET TerminalSet ELSE {{}})
    /\ processes = <<>>
    /\ last = NoClick
    /\ removed = 0
    /\ played = 0

\* ---- the specification ---------------------------------------------------
Next ==
    \/ start_installation
    \/ run_installation_probe_python
    \/ run_installation_probe_git
    \/ download_file_urlopen
    \/ download_file_open
    \/ download_file_read
    \/ download_file_except
    \/ install_python_start
    \/ install_python_run_installer
    \/ install_python_remove_installer
    \/ install_python_linux_check
    \/ install_python_linux_sudo
    \/ install_python_linux_apt
    \/ install_python_verify
    \/ install_python_done
    \/ install_git_start
    \/ install_git_check
    \/ install_git_run_installer
    \/ install_git_remove_installer
    \/ install_git_linux_sudo
    \/ install_git_linux_apt
    \/ install_git_verify
    \/ install_git_done
    \/ install_requests_start
    \/ install_requests_check
    \/ install_requests_linux_sudo
    \/ install_requests_linux_apt
    \/ install_requests_pip
    \/ install_requests_verify
    \/ install_requests_done
    \/ setup_game_start
    \/ setup_game_makedirs
    \/ setup_game_clone
    \/ setup_game_verify
    \/ write_config_open
    \/ write_config_write
    \/ create_desktop_icon
    \/ run_installation_finish
    \/ run_installation_except
    \/ download_dependencies_start
    \/ download_dependencies_wget
    \/ download_dependencies_curl
    \/ download_dependencies_downloaded
    \/ download_dependencies_verify
    \/ main_build_executable

Spec == Init /\ [][Next]_vars

\* the launcher started, used and closed over and over, seen from its config record
NextConfig ==
    \/ LauncherApp_init
    \/ run_installation_record
    \/ on_closing

SpecConfig == InitConfig /\ [][NextConfig]_vars

\* the launcher's windows and the threads its Install Game button starts
NextGui ==
    \/ gui_start_installation
    \/ progress_dialog_close
    \/ gui_run_installation
    \/ error_dialog_ok

SpecGui == InitGui /\ [][NextGui]_vars

\* update_stats called again and again on one stats file
NextStats ==
    \/ update_stats_load
    \/ update_stats_add
    \/ save_stats
    \/ update_stats_return

SpecStats == InitStats /\ [][NextStats]_vars

\* the launcher at its menu and the games it started
NextMenu ==
    \/ LauncherApp_delete_save
    \/ play_game
    \/ check_process
    \/ game_exit
    \/ game_saves
    \/ game_removed

SpecMenu == InitMenu /\ [][NextMenu]_vars

\* ---- one install step called on its own -----------------------------------
\* where install_python, install_git, install_requests and setup_game start
StepEntry(s) ==
    CASE s = "python" -> "py_start" [] s = "git" -> "git_start"
      [] s = "requests" -> "req_start" [] s = "game" -> "game_start"

\* a step is called on any machine, whatever its probe would say
InitStep ==
    /\ OS \in Platforms
    /\ isRoot \in (IF OS = "linux" THEN BOOLEAN ELSE {FALSE})
    /\ present \in [Tools -> BOOLEAN]
    /\ dirs \in [Dirs -> DirStates]
    /\ config = "absent"
    /\ \E s \in {"python", "git", "requests", "game"} : step = s /\ pc = StepEntry(s)
    /\ install_dir \in Dirs
    /\ files = [f \in {"python_installer.exe", "git_installer.exe"} |-> NoFile]
    /\ exc = ""
    /\ progress = Milestone(0)
    /\ events = <<>>
    /\ dialogs = <<>>
    /\ run = MaxRuns
    /\ cfgAtStart = config
    /\ fresh = FALSE
    /\ prev = NoPrev
    /\ dl = NoDl
    /\ BuildOff
    /\ ViewsOff

\* the step, and what run_installation does after it returns or raises
NextStep ==
    \/ run_installation_probe_git
    \/ download_file_urlopen
    \/ download_file_open
    \/ download_file_read
    \/ download_file_except
    \/ install_python_start
    \/ install_python_run_installer
    \/ install_python_remove_installer
    \/ install_python_linux_check
    \/ install_python_linux_sudo
    \/ install_python_linux_apt
    \/ install_python_verify
    \/ install_python_done
    \/ install_git_start
    \/ install_git_check
    \/ install_git_run_installer
    \/ install_git_remove_installer
    \/ install_git_linux_sudo
    \/ install_git_linux_apt
    \/ install_git_verify
    \/ install_git_done
    \/ install_requests_start
    \/ install_requests_check
    \/ install_requests_linux_sudo
    \/ install_requests_linux_apt
    \/ install_requests_pip
    \/ install_requests_verify
    \/ install_requests_done
    \/ setup_game_start
    \/ setup_game_makedirs
    \/ setup_game_clone
    \/ setup_game_verify
    \/ write_config_open
    \/ write_config_write
    \/ create_desktop_icon
    \/ run_installation_finish
    \/ run_installation_except

SpecStep == InitStep /\ [][NextStep]_vars

\* ---- runs on a machine that never had the game ------------------------------
\* the launcher shows the welcome screen; no directory holds "snowcaller" yet
InitResume ==
    /\ OS \in Platforms
    /\ isRoot \in (IF OS = "linux" THEN BOOLEAN ELSE {FALSE})
    /\ present \in [Tools -> BOOLEAN]
    /\ dirs \in [Dirs -> {"nodir", "empty"}]
    /\ config = "absent"
    /\ pc = "welcome"
    /\ RunDefaults
    /\ BuildOff
    /\ ViewsOff

NextRun ==
    \/ start_installation
    \/ run_installation_probe_python
    \/ NextStep

SpecResume == InitResume /\ [][NextRun]_vars

\* ---- runs whose external calls all return -----------------------------------
\* the statements of the worker thread of run_installation
Worker == run_installation_probe_python \/ NextStep

\* every command, download and prompt the worker waits for returns, and the
\* thread is scheduled: the worker takes its next step
SpecTerminates == InitResume /\ [][NextRun]_vars /\ WF_vars(Worker)

\* ---- a run whose windows the user closes -----------------------------------
\* the ProgressDialog of the run is open; progress_bar, label and the callback
\* update_progress_bar are widgets of it
DialogOpen == progress_dialog = <<"open">>
DialogDestroyed == progress_dialog = <<"destroyed">>
Running == pc \notin {"off", "welcome", "menu", "Complete", "Failed", "killed"}

\* start_installation has opened the ProgressDialog and started the thread
InitCancel ==
    /\ OS \in Platforms
    /\ isRoot = FALSE
    /\ present \in [Tools -> BOOLEAN]
    /\ dirs \in [Dirs -> {"nodir", "empty"}]
    /\ config = "absent"
    /\ pc = "probe_python"
    /\ install_dir = "d1"
    /\ files = [f \in {"python_installer.exe", "git_installer.exe"} |-> NoFile]
    /\ step = "none"
    /\ exc = ""
    /\ progress = Milestone(0)
    /\ events = <<>>
    /\ dialogs = <<>>
    /\ run = MaxRuns
    /\ cfgAtStart = config
    /\ fresh = \A t \in Tools : ~present[t]
    /\ prev = NoPrev
    /\ dl = NoDl
    /\ BuildOff
    /\ ConfigOff
    /\ worker = <<>>
    /\ progress_dialog = <<"open">>
    /\ error_dialog = <<>>
    /\ grab = <<"none", 0>>
    /\ screen = "off"
    /\ StatsOff
    /\ MenuOff

\* a statement of the worker that sets progress_bar['value']
SetsProgressBar == (run_installation_probe_python \/ NextStep) /\ progress' # progress

\* the worker goes on: any statement while the ProgressDialog is there, and
\* the statements that do not touch its widgets once it is destroyed
worker_step ==
    /\ run_installation_probe_python \/ NextStep
    /\ IF DialogOpen THEN TRUE ELSE progress' = progress

\* the user closes the ProgressDialog (ModernDialog sets no handler for
\* WM_DELETE_WINDOW: the window is destroyed, the grab is released)
progress_window_closed ==
    /\ Running
    /\ DialogOpen
    /\ progress_dialog' = <<"destroyed">>
    /\ UNCHANGED <<worker, error_dialog, grab, screen>>
    /\ UNCHANGED <<launcherv, buildv, configv, statsv, menuv>>

\* progress_bar['value'] = ... on the destroyed window raises TclError: in the
\* callback of download_file it is caught by download_file's except clause,
\* anywhere else it goes to the except clause of run_installation
progress_bar_TclError ==
    /\ DialogDestroyed
    /\ ENABLED SetsProgressBar
    /\ pc' = IF pc = "dl_read" THEN "dl_except" ELSE "except"
    /\ exc' = "TclError"
    /\ UNCHANGED <<machine, runv, step, progress, events, dialogs, dl>>
    /\ UNCHANGED otherv

\* the "Exit" button or the close button of the main window, usable once the
\* ProgressDialog no longer holds the grab: root.quit(), root.destroy(); the
\* main thread ends and the daemon thread of run_installation ends with it
LauncherApp_on_closing ==
    /\ Running
    /\ DialogDestroyed
    /\ pc' = "killed"
    /\ UNCHANGED <<machine, runv, step, exc, progress, events, dialogs, dl>>
    /\ UNCHANGED otherv

NextCancel ==
    \/ worker_step
    \/ progress_window_closed
    \/ progress_bar_TclError
    \/ LauncherApp_on_closing

SpecCancel == InitCancel /\ [][NextCancel]_vars

\* ==== properties ===========================================================
StepNames == {"python", "git", "requests", "game"}
DownloadErrors == {"urlopen error", "Download failed with status code", "open error",
                   "read error", "write error"}
Applied == SelectSeq(events, LAMBDA e : e.k = "apply")
InstallerPcs == {"py_run_installer", "git_run_installer"}

\* the events of the steps come in the fixed order, and a step's first event
\* comes after the previous step was skipped or returned
StepOrder ==
    \A j \in 1..Len(events) :
       events[j].s \in StepNames =>
         /\ \A i \in 1..j : events[i].s \in StepNames =>
                StepIdx(events[i].s) <= StepIdx(events[j].s)
         /\ StepIdx(events[j].s) > 1 =>
                \E i \in 1..(j - 1) :
                   /\ events[i].s = Steps[StepIdx(events[j].s) - 1]
                   /\ events[i].k \in {"skip", "already", "ok"}

\* a run that started with every probe false and is Complete applied the four
\* steps once each, in order, each with its install action, and wrote the
\* chosen directory
FreshRunCompletes ==
    (pc = "Complete" /\ fresh) =>
       /\ Applied = << [k |-> "apply", s |-> "python"], [k |-> "apply", s |-> "git"],
                       [k |-> "apply", s |-> "requests"], [k |-> "apply", s |-> "game"] >>
       /\ \A s \in {"python", "git"} :
            /\ OS = "windows" => Count("download", s) = 1 /\ Count("installer", s) = 1
            /\ OS = "linux" => Count("pkg", s) = 1
       /\ Count("pkg", "requests") + Count("pip", "requests") >= 1
       /\ Count("clone", "game") = 1
       /\ config = install_dir

\* C1: in every run the steps are taken in the order python, git, requests,
\* game, none before the previous one was skipped or finished; a run on a
\* fresh machine that succeeds applied all four once, in order, ended Complete
\* and wrote the chosen directory to the config record.
C1_FixedOrder == StepOrder /\ FreshRunCompletes

C1_Witness == pc = "Complete" /\ fresh /\ OS = "linux" /\ install_dir = "d2"

\* C2: once a step has raised, the run goes to Failed and stays there: no
\* event, no change of the machine, no retry; exactly one error dialog, which
\* shows the reason.
C2_FailedAbsorbing ==
    /\ [](/\ pc = "Failed" => (exc # "" /\ dialogs = <<exc>>)
          /\ pc # "Failed" => dialogs = <<>>
          /\ exc # "" => pc \in {"dl_except", "except", "Failed"}
          /\ \A s \in StepNames : Count("apply", s) <= 1)
    /\ [][(pc \in {"except", "Failed"} /\ run' = run) =>
             /\ pc' = "Failed"
             /\ events' = events
             /\ machine' = machine
             /\ exc' = exc
             /\ progress' = progress]_vars

C2_Witness == pc = "Failed" /\ exc = "Git installation verification failed"

\* C3: the config file changes only in runs that reach Complete: write_config
\* comes after the four steps and the game.py test, and a run that ends
\* Failed leaves the file as it was.
C3_RecordOnlyOnComplete ==
    /\ Has("write_config", "config") =>
          /\ dirs[install_dir] = "ok"
          /\ \A s \in StepNames : Has("skip", s) \/ Has("already", s) \/ Has("ok", s)
    /\ pc = "Failed" => config = cfgAtStart

\* C4: a step whose probe is true is skipped; with python and git present no
\* install action of theirs runs, the clone step is still done and a run that
\* completes has progress 100.
C4_SkipPresent ==
    /\ \A s \in {"python", "git"} : Has("skip", s) =>
          \A i \in 1..Len(events) : events[i].s = s => events[i].k = "skip"
    /\ (Has("skip", "python") /\ Has("skip", "git") /\ pc = "Complete") =>
          /\ Has("apply", "game")
          /\ progress = Milestone(100)

C4_Witness ==
    /\ pc = "Complete"
    /\ Has("skip", "python")
    /\ Has("skip", "git")
    /\ Has("clone", "game")

\* C5: within one run the progress value never decreases.
C5_ProgressMonotone == [][run' = run => Leq(progress, progress')]_vars

C5_Witness ==
    /\ pc = "dl_read"
    /\ step = "git"
    /\ dl.total_size = 2
    /\ dl.downloaded = 1
    /\ progress = [num |-> 1000, den |-> 20]

\* C6: a run that ends Failed has not reported progress 100.
C6_HundredOnlyOnSuccess == pc = "Failed" => ~Leq(Milestone(100), progress)

\* C7: a run that failed in a download ends Failed showing that error, with
\* the installer file absent and the config untouched; the next run finds
\* the tool absent, applies the step and downloads again.
C7_DownloadFailure ==
    /\ (pc = "Failed" /\ exc \in DownloadErrors) =>
          /\ files[Installer(step)] = NoFile
          /\ config = cfgAtStart
          /\ dialogs = <<exc>>
    /\ (prev.exc \in DownloadErrors /\ pc # "welcome") =>
          /\ ~Has("skip", prev.step)
          /\ pc \notin {"probe_python", "probe_git"} => Has("need", prev.step)
          /\ (/\ Has("need", prev.step)
              /\ ~(step = prev.step /\ pc \in {"py_start", "git_start", "git_check", "dl_urlopen"}))
                => (Has("apply", prev.step) /\ Has("download", prev.step))

C7_Witness ==
    /\ run = 2
    /\ prev = [step |-> "git", exc |-> "Download failed with status code"]
    /\ pc = "dl_open_file"
    /\ step = "git"

\* download_file has raised: the destination is gone
DownloadRaisedFileAbsent ==
    (pc \in {"except", "Failed"} /\ exc \in DownloadErrors) =>
       files[Installer(step)] = NoFile

\* C8: after download_file the destination is a complete file or absent:
\* absent once it raised, and holding all the announced bytes once it returned.
C8_CompleteOrAbsent ==
    /\ DownloadRaisedFileAbsent
    /\ (pc \in InstallerPcs /\ dl.total_size > 0) =>
          files[Installer(step)] = dl.total_size

\* C9: download_file does not return with a zero-length file.
C9_ZeroLengthIsFailure == pc \in InstallerPcs => files[Installer(step)] > 0

\* build.py packages no git.exe below the minimum size
BuildEnforcesMinSize == bpc = "packaged" => git_exe >= MinInstallerSize

\* C10: no installer below the minimum size is executed by install_python or
\* install_git, or packaged by build.py.
C10_MinSizeEnforced ==
    /\ pc \in {"py_remove_installer", "git_remove_installer"} =>
          files[Installer(step)] * BlockSize >= MinInstallerSize
    /\ BuildEnforcesMinSize

\* the launcher has read the config record since it was last started
AfterRead == cpc \in {"welcome", "menu", "crashed"}

\* the first line of the file, as written, starts with install_dir=
FirstLineHasPrefix(text) ==
    startswith(SubSeq(text, 1, IF find(text, LF) = 0 THEN Len(text) ELSE find(text, LF)),
               Prefix)

\* a directory written and still there with its game subdirectory reads back verbatim
RoundTripVerbatim ==
    (/\ AfterRead
     /\ written # NonePath
     /\ config_file = write_config_text(written)
     /\ game_exists(tree, written))
       => (cpc = "menu" /\ app_install_dir = written)

\* a file that is empty or lacks the prefix reads as None, without an exception
NoPrefixReadsNone ==
    (/\ AfterRead
     /\ config_file.exists
     /\ ~FirstLineHasPrefix(config_file.text))
       => (cpc = "welcome" /\ app_install_dir = NonePath)

\* C11: write_config(d) followed by read_config returns d verbatim whenever d
\* exists and holds the game subdirectory, whitespace at the ends of d
\* included; a config file that is empty or whose first line lacks the
\* install_dir= prefix reads as None and read_config does not raise.
C11_ConfigRoundTrip == RoundTripVerbatim /\ NoPrefixReadsNone

C13_NeverPartial ==
    Has("write_config", "config") => config \in {cfgAtStart, install_dir}

\* what a step's own check looks at
StepCheck(s) ==
    CASE s = "python" -> check_command("python")
      [] s = "git" -> check_command("git")
      [] s = "requests" -> Importable
      [] s = "game" -> install_dir \in Dirs /\ dirs[install_dir] \in {"nogame", "ok"}

\* downloads, installer runs, package-manager commands and clones of step s
SideEffects(s) ==
    Count("download", s) + Count("installer", s) + Count("pkg", s) + Count("pip", s)
      + Count("clone", s)

\* C14: on every platform a step whose check is true does nothing but report
\* progress: its first download, installer run, package-manager command or
\* clone happens only while its check is false.
C14_StepIdempotent ==
    [][\A s \in StepNames :
          (SideEffects(s) = 0 /\ SideEffects(s)' > 0) => ~StepCheck(s)]_vars

SudoPcs == {"py_linux_sudo", "git_linux_sudo", "req_linux_sudo"}
AptPcs == {"py_linux_apt", "git_linux_apt", "req_linux_apt"}
Declined == "User cancelled sudo operation"

\* C15: a sudo command is run only from behind the confirmation; a declined
\* confirmation raises at once, and the run it ends has run no package-manager
\* command for that step, no later step and no write_config, and is not
\* retried.
C15_SudoDeclined ==
    /\ []((pc \in {"except", "Failed"} /\ exc = Declined) =>
             /\ OS = "linux" /\ ~isRoot
             /\ SideEffects(step) = 0
             /\ Count("apply", step) = 1
             /\ \A i \in 1..Len(events) :
                   events[i].s \in StepNames /\ StepIdx(events[i].s) <= StepIdx(step)
             /\ config = cfgAtStart)
    /\ [][/\ (\E s \in StepNames : Count("pkg", s)' > Count("pkg", s)) => pc \in AptPcs
          /\ (pc' \in AptPcs /\ pc \notin AptPcs) => pc \in SudoPcs
          /\ pc \in SudoPcs =>
                \/ pc' \in AptPcs /\ exc' = ""
                \/ ~isRoot /\ pc' = "except" /\ exc' = Declined /\ events' = events
          /\ (pc = "except" /\ exc = Declined) => (pc' = "Failed" /\ events' = events)]_vars

C15_Witness ==
    /\ pc = "Failed"
    /\ exc = Declined
    /\ step = "requests"
    /\ Has("pkg", "git")

DonePc(s) == IF s = "python" THEN "py_done" ELSE "git_done"

\* C16: on Windows install_python and install_git report success only after
\* the installer ran and the probe made after it found the tool.
C16_VerifiedByProbe ==
    \A s \in {"python", "git"} :
       (OS = "windows" /\ (Has("ok", s) \/ (pc = DonePc(s) /\ step = s))) =>
          (Has("installer", s) /\ check_command(s))

\* the installer exited with code 0 and the tool is still not found
C16_Witness ==
    /\ OS = "windows"
    /\ pc = "Failed"
    /\ exc = "Python installation verification failed"
    /\ Has("installer", "python")
    /\ ~check_command("python")

NoGameFile == "Required game file not found: game.py"

\* C17: a run after a failed one does not repeat the install action of a step
\* that is already satisfied, and it fails only for a cause of its own: when
\* it fails for the missing game.py, it is because the game it fetched itself
\* lacks the file, not because of what the failed run left behind.
C17_Resumable ==
    /\ \A s \in StepNames : (Has("skip", s) \/ Has("already", s)) => SideEffects(s) = 0
    /\ (run >= 2 /\ pc = "Failed" /\ exc = NoGameFile) => Has("clone", "game")

Live == {w \in Workers : worker[w] \notin {"unborn", "ended"}}

\* C18: at most one thread of run_installation is alive at any time, so no
\* two install steps and no two downloads are in progress together.
C18_SingleWorker == Cardinality(Live) <= 1

\* C19: whatever the stats file holds, load_stats returns a record with the
\* three fields, the two totals numbers, and update_stats does not raise on
\* what it loaded.
C19_LoadNeverFails ==
    /\ spc = "loaded" =>
          /\ stats.t = "obj"
          /\ StatKeys \subseteq DOMAIN stats.f
          /\ IsCount(stats, "total_deaths")
          /\ IsCount(stats, "total_time")
    /\ spc = "raised" => stats_exc = "OSError"

\* text that json.load rejects, the empty text included
NotJsonText == {"empty", "garbage"}

Click(op) == pc = "menu" /\ last' # last /\ last'.op = op

\* C21: delete_save with no save file present reports "No save file found.",
\* returns False and leaves the stats file (and the number of deaths) as it was
C21_NoSaveNoDeath ==
    [][(Click("delete_save") /\ ~save_json) =>
          /\ last'.message = "No save file found."
          /\ last'.result = "False"
          /\ stats_file' = stats_file
          /\ removed' = removed
          /\ save_json' = save_json]_vars

\* a delete with no save file, after a death has been recorded in the file
C21_Witness ==
    /\ last.op = "delete_save"
    /\ last.message = "No save file found."
    /\ stats_file.kind = "json"
    /\ stats_file.value.f["total_deaths"].n = 1

\* what load_stats reads for a counter of the stats file
Total(key) == load_stats(stats_file).value.f[key].n

\* C22: starting from an absent stats file, total_deaths is the number of
\* delete_save calls that removed a save file, total_time is the sum of the
\* seconds on_game_exit computed, and neither counter ever decreases
C22_CountersExact ==
    /\ [](Total("total_deaths") = removed /\ Total("total_time") = played)
    /\ [][/\ Total("total_deaths")' >= Total("total_deaths")
          /\ Total("total_time")' >= Total("total_time")]_vars

\* C23: every process launch_game started has update_stats called for it
\* exactly once: never twice, polling stops with the call, and a process that
\* has ended without the call is still polled by an open launcher
C23_RecordedOnce ==
    \A i \in 1..Len(processes) :
       /\ processes[i].calls <= 1
       /\ processes[i].calls = 1 => ~processes[i].poll /\ ~processes[i].alive
       /\ processes[i].calls = 0 => processes[i].poll /\ pc = "menu"

\* C24: launch_game with install_dir/snowcaller or game.py missing shows the
\* not-found error and returns False: no process, no poll, stats unchanged,
\* the launcher stays open
C24_NotFoundNoLaunch ==
    [][(Click("play_game") /\ dirs[install_dir] # "ok") =>
          /\ last'.result = "False"
          /\ last'.message = NotFound
          /\ last'.spawned = 0
          /\ processes' = processes
          /\ stats_file' = stats_file
          /\ pc' = "menu"]_vars

\* the game was removed while a game started earlier is still running
C24_Witness ==
    /\ last.op = "play_game"
    /\ last.message = NotFound
    /\ Len(processes) = 1
    /\ processes[1].alive

\* the terminals before the i-th are those whose probe failed
FirstWorking(i) ==
    /\ Terminals[i] \in terminals
    /\ \A j \in 1..(i - 1) : Terminals[j] \notin terminals

\* what a launch on Linux, with the game in place, does
LinuxLaunch == OS = "linux" /\ last.op = "play_game" /\ last.message # NotFound

\* C25: on Linux the terminals are probed in the order gnome-terminal,
\* xfce4-terminal, konsole, xterm; one process is spawned, in the first whose
\* probe succeeds, and no later one is probed; with none, nothing is spawned
\* and launch_game returns False with the no-terminal error
C25_FirstTerminal ==
    /\ [](LinuxLaunch =>
            IF \E i \in 1..Len(Terminals) : Terminals[i] \in terminals
            THEN \E i \in 1..Len(Terminals) :
                    /\ FirstWorking(i)
                    /\ last.probed = SubSeq(Terminals, 1, i)
                    /\ last.spawned = 1
                    /\ last.result = "True"
                    /\ processes[Len(processes)].term = Terminals[i]
            ELSE /\ last.probed = Terminals
                 /\ last.spawned = 0
                 /\ last.result = "False"
                 /\ last.message = "No supported terminal found"
                 /\ processes = <<>>)
    /\ [][Click("play_game") => Len(processes') = Len(processes) + last'.spawned]_vars

\* konsole is the first terminal that answers, xterm is installed as well
C25_Witness ==
    /\ LinuxLaunch
    /\ terminals = {"konsole", "xterm"}
    /\ last.probed = <<"gnome-terminal", "xfce4-terminal", "konsole">>
    /\ Len(processes) = 1

\* ---- closing the windows during a run: properties ---------------------------
\* the run was stopped by the user: by the closed ProgressDialog or by Exit
Cancelled == DialogDestroyed /\ (exc = "TclError" \/ pc = "killed")

\* C26: a cancellation during a run takes effect at a step boundary only: no
\* download is aborted half-way (no installer file is being written when the
\* run stops) and the record is not written for the cancelled run
C26_CancelAtBoundary ==
    Cancelled =>
       /\ pc # "dl_except"
       /\ \A f \in DOMAIN files : files[f] = NoFile
       /\ config = cfgAtStart

\* ---- the install steps on every platform: properties ------------------------
\* C27: on every platform, when install_python or install_git reports
\* "... installed successfully" a probe of the tool has answered during the
\* call: the tool is there
C27_SuccessMeansProbed ==
    \A s \in {"python", "git"} :
       (Has("ok", s) \/ (pc = DonePc(s) /\ step = s)) => check_command(s)

\* the step has ended: by return (the next step's probe, or beyond) or by raise
Ended(s) ==
    \/ step = s /\ pc \in {"except", "Failed"}
    \/ Has("apply", s) /\ step # s

\* C28: on Windows, once install_python or install_git has ended, by return
\* or by raise, its installer file does not exist
C28_InstallerRemoved ==
    \A s \in {"python", "git"} :
       (OS = "windows" /\ Has("download", s) /\ Ended(s)) => files[Installer(s)] = NoFile

\* install_requests has reported success, by either message
RequestsSucceeded ==
    Has("ok", "requests") \/ Has("already", "requests") \/ (pc = "req_done" /\ step = "requests")

\* C29: on Linux install_requests raises "Requests installation failed" only
\* when apt and then the pip --user fallback both exited with a code other
\* than 0; pip runs only after apt failed; a failed apt alone never ends the
\* step; and the step reports success only if "import requests" works
C29_AptThenPip ==
    /\ [](OS = "linux" =>
            /\ Has("pip", "requests") => Has("fallback", "requests")
            /\ exc = "Requests installation failed" =>
                  Has("fallback", "requests") /\ Has("pip", "requests")
            /\ RequestsSucceeded => Importable)
    /\ [][(OS = "linux" /\ pc = "req_linux_apt") =>
             (pc' \in {"req_pip", "req_verify"} /\ exc' = exc)]_vars

\* apt failed, pip --user installed the module and the import was verified
C29_Witness ==
    /\ OS = "linux"
    /\ Has("fallback", "requests")
    /\ Has("pip", "requests")
    /\ Has("ok", "requests")
    /\ pc = "Complete"

\* ---- termination of a run: properties ---------------------------------------
\* C30: when every external call returns, a run that was started ends in
\* Complete (the record written, no error dialog) or in Failed (its exception
\* shown in an ErrorDialog), never both; an exception raised by a step always
\* reaches Failed
C30_RunTerminates ==
    /\ [](Running => <>(pc \in {"Complete", "Failed"}))
    /\ [](exc # "" => <>(pc = "Failed"))
    /\ [](pc = "Complete" => (exc = "" /\ dialogs = <<>> /\ config = install_dir))
    /\ [](pc = "Failed" => (exc # "" /\ dialogs = <<exc>>))

\* a second run, after a first one that failed, has completed
C30_Witness ==
    /\ pc = "Complete"
    /\ run = 2
    /\ prev.exc # ""

====
